---- MODULE Spec2Model ----
(***************************************************************************)
(* The event pipeline runner of the plugin server (EventPipelineRunner):   *)
(* one run of runEventPipeline over one event, with the step executor      *)
(* (runStep / handleError), the stall timer and the dead-letter write.     *)
(* The stages themselves, the warning emitter, the dead-letter message     *)
(* builder and the producer are collaborators: their outcomes are chosen   *)
(* by the environment.                                                     *)
(***************************************************************************)
EXTENDS Integers, Sequences, FiniteSets, TLC

\* ------------------------------------------------------------------ bounds

\* Team ids the team-population step may resolve an event to: 1..MaxTeamId.
MaxTeamId == 2

\* ------------------------------------------------------------ value model

\* An optional value: absent (undefined) or one value.
Undefined == <<>>
Some(x) == <<x>>

\* JavaScript values a property may hold, tagged with their type.
JsTrue == [t |-> "boolean", v |-> "true"]
JsFalse == [t |-> "boolean", v |-> "false"]
JsValues ==
    {JsTrue, JsFalse, [t |-> "string", v |-> "yes"], [t |-> "string", v |-> "false"]}

\* Number.prototype.toString for the team ids of the model.
NumberToString(n) == <<"0", "1", "2", "3", "4", "5", "6", "7", "8", "9">>[n + 1]

\* The property maps of the input events: a person-related property ($set), and
\* $process_person absent or holding any of the values above.
PropertyMaps ==
    LET pp == {<<>>} \cup {<<v>> : v \in JsValues}
    IN  {[k \in (IF o = <<>> THEN {} ELSE {"$process_person"}) \cup {"$set"} |->
            IF k = "$set" THEN [t |-> "object", v |-> "name"] ELSE o[1]] : o \in pp}

EventNames ==
    {"pageview", "$identify", "$create_alias", "$merge_dangerously", "$groupidentify",
     "$$client_ingestion_warning"}

\* The events given to runEventPipeline. token "" stands for a missing or
\* empty token, team_id Undefined for a missing one; stages lists the stages
\* that have produced this version of the event.
Events ==
    [token : {"", "tokA"},
     team_id : {Undefined, Some(1)},
     distinct_id : {"u1", "u2"},
     event : EventNames,
     properties : PropertyMaps,
     stages : {<<>>}]

\* The event a runner may have been constructed with.
CtorEvent ==
    [token |-> "", team_id |-> Undefined, distinct_id |-> "ctor", event |-> "pageview",
     properties |-> [k \in {} |-> JsTrue], stages |-> <<>>]

\* hub.eventsToDropByToken: undefined, or a map from token / team id to ids.
DropLists ==
    {Undefined,
     Some([k \in {"tokA"} |-> <<"u1">>]),
     Some([k \in {"1"} |-> <<"*">>])}

\* What a stage may reject with: the retryable dependency error, another
\* Error, with or without a message, or a value that is no object at all.
StageErrors ==
    {[kind |-> "DependencyUnavailableError", message |-> "unavailable"],
     [kind |-> "Error", message |-> "boom"],
     [kind |-> "Error", message |-> ""],
     [kind |-> "null", message |-> ""],
     [kind |-> "undefined", message |-> ""]}

\* The rejected value is null or undefined: it has no property to read.
Nullish(e) == e.kind \in {"null", "undefined"}

\* What a call made outside the step executor may throw.
OutsideErrors ==
    {[kind |-> "TypeError", message |-> "outside"],
     [kind |-> "DependencyUnavailableError", message |-> "outside unavailable"]}

DlqErrors ==
    {[kind |-> "Error", message |-> "dlq failed"],
     [kind |-> "DependencyUnavailableError", message |-> "kafka unavailable"]}

VARIABLES
    hub,            \* the shared platform resources the runner reads
    input,          \* the event runEventPipeline is called with
    originalEvent,  \* this.originalEvent
    poEEmbraceJoin, \* this.poEEmbraceJoin
    pc,             \* where the run is
    eventWithTeam,  \* the local eventWithTeam: what populateTeamDataStep returned
    processedEvent, \* the local processedEvent: what pluginsProcessEventStep returned
    event,          \* the local event of runEventPipelineSteps
    processPerson,  \* the local processPerson
    kafkaAcks,      \* the local kafkaAcks
    person,         \* the local person
    step,           \* the step execution in progress: name, args, teamId, sentToDql
    err,            \* the error caught by runStep
    timers,         \* the stall timers armed and not cleared (by step name)
    fired,          \* the armed timers that have fired
    outcome,        \* how the run ended: a PipelineResult or a thrown error
    calls,          \* history: the step executions started
    warnings,       \* history: the captureIngestionWarning calls
    stripped,       \* history: the events given to normalizeProcessPerson
    dlqAttempts,    \* history: the dead-letter writes attempted
    queued,         \* history: the messages handed to kafkaProducer.queueMessage
    dlqError,       \* history: the failure of the dead-letter write
    dlqWrite,       \* history: the queueMessage call: none, pending, acked or failed
    raised          \* history: the error raised in the run and where

\* loadPluginsFromDB: its position, the rows the database returned and the
\* maps it builds.
VARIABLES
    loaderPc,             \* where loadPluginsFromDB is
    pluginRows,           \* what getPluginRows returned
    plugins,              \* the local plugins
    attachmentsPerConfig, \* the local attachmentsPerConfig
    pluginConfigRows,     \* what getPluginConfigRows returned
    pluginConfigs,        \* the local pluginConfigs
    pluginConfigsPerTeam  \* the local pluginConfigsPerTeam

runnerVars ==
    <<hub, input, originalEvent, poEEmbraceJoin, pc, eventWithTeam, processedEvent, event,
      processPerson, kafkaAcks, person, step, err, timers, fired, outcome, calls, warnings,
      stripped, dlqAttempts, queued, dlqError, dlqWrite, raised>>

loaderVars ==
    <<loaderPc, pluginRows, plugins, attachmentsPerConfig, pluginConfigRows, pluginConfigs,
      pluginConfigsPerTeam>>

vars == <<runnerVars, loaderVars>>

\* new Map()
EmptyMap == [k \in {} |-> Undefined]

\* loadPluginsFromDB before its first await.
LoaderInit ==
    /\ loaderPc = "getPluginRows"
    /\ pluginRows = <<>>
    /\ plugins = EmptyMap
    /\ attachmentsPerConfig = EmptyMap
    /\ pluginConfigRows = <<>>
    /\ pluginConfigs = EmptyMap
    /\ pluginConfigsPerTeam = EmptyMap

NoStep == [name |-> "", args |-> <<>>, teamId |-> 0, sentToDql |-> TRUE]
NoErr == [kind |-> "", message |-> ""]
NoOutcome ==
    [kind |-> "none", lastStep |-> "", args |-> <<>>, error |-> Undefined,
     ackPromises |-> Undefined, thrown |-> NoErr]

\* The runner after construction, before runEventPipeline is called.
Init ==
    /\ hub \in [eventsToDropByToken : DropLists,
                poeEmbraceJoinForTeams : {Undefined, Some({1})},
                POE_WRITES_ENABLED_MAX_TEAM_ID : {0, 1},
                poeWritesExcludeTeams : {{}, {1}}]
    /\ input \in Events
    /\ originalEvent = CtorEvent
    /\ poEEmbraceJoin \in BOOLEAN
    /\ pc = "start"
    /\ eventWithTeam = [returned |-> FALSE, value |-> Undefined]
    /\ processedEvent = [returned |-> FALSE, value |-> Undefined]
    /\ event = CtorEvent
    /\ processPerson = TRUE
    /\ kafkaAcks = <<>>
    /\ person = Undefined
    /\ step = NoStep
    /\ err = NoErr
    /\ timers = {}
    /\ fired = {}
    /\ outcome = NoOutcome
    /\ calls = <<>>
    /\ warnings = <<>>
    /\ stripped = <<>>
    /\ dlqAttempts = 0
    /\ queued = <<>>
    /\ dlqError = Undefined
    /\ dlqWrite = "none"
    /\ raised = Undefined
    /\ LoaderInit

\* ------------------------------------------------------------ pure helpers

\* Array.prototype.includes
Includes(arr, x) == \E i \in 1..Len(arr) : arr[i] = x

\* Mutant of isEventDisallowed: the team id is not used as a key.
IsEventDisallowedTokenOnly(e) ==
    LET map == hub.eventsToDropByToken
    IN  /\ e.token # ""
        /\ map # Undefined
        /\ e.token \in DOMAIN map[1]
        /\ (Includes(map[1][e.token], e.distinct_id) \/ Includes(map[1][e.token], "*"))

\* Mutant of isEventDisallowed: the wildcard is not looked for.
IsEventDisallowedNoWildcard(e) ==
    LET key == IF e.token # "" THEN Some(e.token)
               ELSE IF e.team_id # Undefined THEN Some(NumberToString(e.team_id[1]))
               ELSE Undefined
        map == hub.eventsToDropByToken
    IN  /\ key # Undefined
        /\ map # Undefined
        /\ key[1] \in DOMAIN map[1]
        /\ Includes(map[1][key[1]], e.distinct_id)

\* isEventDisallowed: the lookup key is the token if it is non-empty, else the
\* team id as a string; no key, no map or no entry never drops.
IsEventDisallowed(e) ==
    LET key == IF e.token # "" THEN Some(e.token)
               ELSE IF e.team_id # Undefined THEN Some(NumberToString(e.team_id[1]))
               ELSE Undefined
        map == hub.eventsToDropByToken
        dropIds == IF key # Undefined /\ map # Undefined /\ key[1] \in DOMAIN map[1]
                   THEN Some(map[1][key[1]])
                   ELSE Undefined
    IN  /\ key # Undefined
        /\ dropIds # Undefined
        /\ (Includes(dropIds[1], e.distinct_id) \/ Includes(dropIds[1], "*"))

\* registerLastStep
RegisterLastStep(stepName, args, ackPromises) ==
    [kind |-> "result", lastStep |-> stepName, args |-> args, error |-> Undefined,
     ackPromises |-> ackPromises, thrown |-> NoErr]

\* The no-retry signal of the step executor.
StepErrorNoRetry(stepName, args, message) ==
    [kind |-> "StepErrorNoRetry", step |-> stepName, args |-> args, message |-> message]

\* Mutants of shouldRetry: no error is retried; every error is retried.
ShouldRetryNever(e) == FALSE
ShouldRetryAlways(e) == TRUE

\* shouldRetry
ShouldRetry(e) == e.kind = "DependencyUnavailableError"

\* The catch block of runEventPipeline: a StepErrorNoRetry becomes a result,
\* anything else is thrown on to the caller.
Catch(error) ==
    IF error.kind = "StepErrorNoRetry"
    THEN [kind |-> "result", lastStep |-> error.step, args |-> <<>>,
          error |-> Some(error.message), ackPromises |-> Undefined, thrown |-> NoErr]
    ELSE [NoOutcome EXCEPT !.kind = "thrown", !.thrown = error]

\* What handleError throws for a non-retryable error e, after a dead-letter
\* write that was skipped, succeeded (dlqFailure Undefined) or failed.
HandleErrorThrows(stepName, args, e, dlqFailure) ==
    IF e.kind = "null"
    THEN [kind |-> "TypeError",
          message |-> "Cannot read properties of null (reading 'message')"]
    ELSE IF e.kind = "undefined"
    THEN [kind |-> "TypeError",
          message |-> "Cannot read properties of undefined (reading 'message')"]
    ELSE StepErrorNoRetry(stepName, args, e.message)

\* Mutant: runStep has no finally block.
ClearTimeoutMissing(armed, name) == armed

\* clearTimeout in the finally block of runStep.
ClearTimeout(armed, name) == armed \ {name}

\* Mutant of the reserved names: $groupidentify is missing.
ReservedEventsShort == <<"$identify", "$create_alias", "$merge_dangerously">>

\* The names for which $process_person = false is invalid.
ReservedEvents == <<"$identify", "$create_alias", "$merge_dangerously", "$groupidentify">>

\* Mutants of the reading of $process_person: a value that is not a boolean
\* counts as true; everything but boolean true counts as false.
ProcessPersonPropTruthy(e) ==
    IF "$process_person" \notin DOMAIN e.properties THEN "absent"
    ELSE IF e.properties["$process_person"] = JsFalse THEN "false"
    ELSE "true"
ProcessPersonPropNotTrue(e) ==
    IF "$process_person" \notin DOMAIN e.properties THEN "absent"
    ELSE IF e.properties["$process_person"] = JsTrue THEN "true"
    ELSE "false"

\* How runEventPipelineSteps reads $process_person: absent, boolean true,
\* boolean false, or anything else.
ProcessPersonProp(e) ==
    IF "$process_person" \notin DOMAIN e.properties THEN "absent"
    ELSE IF e.properties["$process_person"] = JsTrue THEN "true"
    ELSE IF e.properties["$process_person"] = JsFalse THEN "false"
    ELSE "invalid"

\* The condition under which runEventPipelineSteps sets poEEmbraceJoin.
EmbraceJoinForTeam(teamId) ==
    \/ /\ hub.poeEmbraceJoinForTeams # Undefined
       /\ teamId \in hub.poeEmbraceJoinForTeams[1]
    \/ /\ teamId <= hub.POE_WRITES_ENABLED_MAX_TEAM_ID
       /\ teamId \notin hub.poeWritesExcludeTeams

\* ------------------------------------------------------- the collaborators

\* The team-population stage: the event with its team resolved.
PopulateTeamDataStep(e) ==
    {[e EXCEPT !.team_id = Some(t), !.stages = Append(@, "populateTeamDataStep")] :
        t \in 1..MaxTeamId}

\* normalizeProcessPerson: the event without its person-related properties.
NormalizeProcessPerson(e, pp) ==
    IF pp THEN e
    ELSE [e EXCEPT !.properties = [k \in (DOMAIN @) \ {"$set"} |-> @[k]]]

\* What a stage after team population returns for an event: the event,
\* marked as processed by that stage.
StageOutput(name, e) == [e EXCEPT !.stages = Append(@, name)]

\* The handle captureIngestionWarning returns, and the one of the event write.
WarningAck(type) == [kind |-> "warning", type |-> type]
EventAck == [kind |-> "event", type |-> "createEventStep"]

\* generateEventDeadLetterQueueMessage
GenerateEventDeadLetterQueueMessage(original, error, teamId, source) ==
    [event |-> original, error |-> error, teamId |-> teamId, source |-> source]

\* ----------------------------------------------------------- step executor

\* runStep up to the await of the stage: the stall timer is armed and the
\* stage is called. armed is the set of timers still armed at the call.
RunStep(name, args, teamId, armed) ==
    /\ step' = [name |-> name, args |-> args, teamId |-> teamId, sentToDql |-> TRUE]
    /\ timers' = armed \cup {name}
    /\ calls' = Append(calls, [step |-> name, args |-> args, teamId |-> teamId])
    /\ pc' = "step"

\* The run ends: runEventPipeline returns the result or throws.
Finish(o, armed) ==
    /\ outcome' = o
    /\ timers' = armed
    /\ pc' = "done"
    /\ UNCHANGED <<step, calls>>

\* captureIngestionWarning
CaptureIngestionWarning(teamId, type, alwaysSend) ==
    warnings' = Append(warnings, [teamId |-> teamId, type |-> type,
                                  event |-> event.event, distinctId |-> event.distinct_id,
                                  alwaysSend |-> alwaysSend])

\* ------------------------------------------------------------------ actions

\* Mutant: runEventPipeline does not record its argument as originalEvent.
RunEventPipelineKeepsConstructorEvent ==
    /\ pc = "start"
    /\ IF IsEventDisallowed(input)
       THEN Finish(RegisterLastStep("eventDisallowedStep", <<input>>, Undefined), timers)
       ELSE /\ RunStep("populateTeamDataStep", <<input>>,
                       IF input.team_id # Undefined /\ input.team_id[1] # 0
                       THEN input.team_id[1] ELSE -1, timers)
            /\ UNCHANGED outcome
    /\ UNCHANGED <<loaderVars,
                   hub, eventWithTeam, processedEvent, input, originalEvent, poEEmbraceJoin,
                   event, processPerson, kafkaAcks, person, err, fired, warnings, stripped,
                   dlqAttempts, queued, dlqError, dlqWrite, raised>>

\* runEventPipeline up to its first await.
RunEventPipeline ==
    /\ pc = "start"
    /\ originalEvent' = input
    /\ IF IsEventDisallowed(input)
       THEN Finish(RegisterLastStep("eventDisallowedStep", <<input>>, Undefined), timers)
       ELSE /\ RunStep("populateTeamDataStep", <<input>>,
                       IF input.team_id # Undefined /\ input.team_id[1] # 0
                       THEN input.team_id[1] ELSE -1, timers)
            /\ UNCHANGED outcome
    /\ UNCHANGED <<loaderVars,
                   hub, eventWithTeam, processedEvent, input, poEEmbraceJoin, event,
                   processPerson, kafkaAcks, person, err, fired, warnings, stripped,
                   dlqAttempts, queued, dlqError, dlqWrite, raised>>

\* Mutant of the null check on eventWithTeam: null is handed to
\* runEventPipelineSteps, whose read of event.team_id throws a TypeError.
PopulateTeamDataStepReturnsUnchecked ==
    /\ pc = "step"
    /\ step.name = "populateTeamDataStep"
    /\ fired' = ClearTimeout(fired, step.name)
    /\ \/ /\ eventWithTeam' = [returned |-> TRUE, value |-> Undefined]
          /\ Finish(Catch([kind |-> "TypeError", message |-> "event is null"]),
                    ClearTimeout(timers, step.name))
          /\ UNCHANGED event
       \/ /\ \E e \in PopulateTeamDataStep(step.args[1]) :
                /\ eventWithTeam' = [returned |-> TRUE, value |-> Some(e)]
                /\ event' = e
          /\ timers' = ClearTimeout(timers, step.name)
          /\ pc' = "routing"
          /\ UNCHANGED <<outcome, step, calls>>
    /\ UNCHANGED <<loaderVars,
                   hub, processedEvent, input, originalEvent, poEEmbraceJoin, processPerson,
                   kafkaAcks, person, err, warnings, stripped, dlqAttempts, queued, dlqError,
                   dlqWrite, raised>>

\* populateTeamDataStep returns: null ends the run, an event starts
\* runEventPipelineSteps.
PopulateTeamDataStepReturns ==
    /\ pc = "step"
    /\ step.name = "populateTeamDataStep"
    /\ fired' = ClearTimeout(fired, step.name)
    /\ \/ /\ eventWithTeam' = [returned |-> TRUE, value |-> Undefined]
          /\ Finish(RegisterLastStep("populateTeamDataStep", <<input>>, Undefined),
                    ClearTimeout(timers, step.name))
          /\ UNCHANGED event
       \/ /\ \E e \in PopulateTeamDataStep(step.args[1]) :
                /\ eventWithTeam' = [returned |-> TRUE, value |-> Some(e)]
                /\ event' = e
          /\ timers' = ClearTimeout(timers, step.name)
          /\ pc' = "routing"
          /\ UNCHANGED <<outcome, step, calls>>
    /\ UNCHANGED <<loaderVars,
                   hub, processedEvent, input, originalEvent, poEEmbraceJoin, processPerson,
                   kafkaAcks, person, err, warnings, stripped, dlqAttempts, queued, dlqError,
                   dlqWrite, raised>>

\* Mutant: the flag is assigned the value of the condition.
EmbraceJoinRoutingAssigns ==
    /\ pc = "routing"
    /\ poEEmbraceJoin' = EmbraceJoinForTeam(event.team_id[1])
    /\ kafkaAcks' = <<>>
    /\ processPerson' = TRUE
    /\ pc' = "processPerson"
    /\ UNCHANGED <<loaderVars,
                   hub, eventWithTeam, processedEvent, input, originalEvent, event, person,
                   step, err, timers, fired, outcome, calls, warnings, stripped, dlqAttempts,
                   queued, dlqError, dlqWrite, raised>>

\* runEventPipelineSteps: the embrace-join routing.
EmbraceJoinRouting ==
    /\ pc = "routing"
    /\ poEEmbraceJoin' = IF EmbraceJoinForTeam(event.team_id[1]) THEN TRUE ELSE poEEmbraceJoin
    /\ kafkaAcks' = <<>>
    /\ processPerson' = TRUE
    /\ pc' = "processPerson"
    /\ UNCHANGED <<loaderVars,
                   hub, eventWithTeam, processedEvent, input, originalEvent, event, person,
                   step, err, timers, fired, outcome, calls, warnings, stripped, dlqAttempts,
                   queued, dlqError, dlqWrite, raised>>

\* runEventPipelineSteps: the $process_person property.
ProcessPersonFlag ==
    /\ pc = "processPerson"
    /\ IF ProcessPersonProp(event) \in {"absent", "true"}
       THEN /\ pc' = "clientWarning"
            /\ UNCHANGED <<processPerson, event, kafkaAcks, warnings, stripped, outcome,
                           timers, step, calls>>
       ELSE IF ProcessPersonProp(event) = "false"
       THEN /\ processPerson' = FALSE
            /\ IF Includes(ReservedEvents, event.event)
               THEN /\ CaptureIngestionWarning(event.team_id[1],
                            "invalid_event_when_process_person_is_false", TRUE)
                    /\ kafkaAcks' = Append(kafkaAcks,
                            WarningAck("invalid_event_when_process_person_is_false"))
                    /\ Finish(RegisterLastStep("invalidEventForProvidedFlags", <<event>>,
                                               Some(kafkaAcks')), timers)
                    /\ UNCHANGED <<event, stripped>>
               ELSE /\ event' = NormalizeProcessPerson(event, FALSE)
                    /\ stripped' = Append(stripped, event)
                    /\ pc' = "clientWarning"
                    /\ UNCHANGED <<kafkaAcks, warnings, outcome, timers, step, calls>>
       ELSE /\ CaptureIngestionWarning(event.team_id[1], "invalid_process_person", FALSE)
            /\ kafkaAcks' = Append(kafkaAcks, WarningAck("invalid_process_person"))
            /\ pc' = "clientWarning"
            /\ UNCHANGED <<processPerson, event, stripped, outcome, timers, step, calls>>
    /\ UNCHANGED <<loaderVars,
                   hub, eventWithTeam, processedEvent, input, originalEvent,
                   poEEmbraceJoin, person, err, fired,
                   dlqAttempts, queued, dlqError, dlqWrite, raised>>

\* Mutant: the return after the client ingestion warning is missing.
ClientIngestionWarningFallsThrough ==
    /\ pc = "clientWarning"
    /\ IF event.event = "$$client_ingestion_warning"
       THEN /\ CaptureIngestionWarning(event.team_id[1], "client_ingestion_warning", TRUE)
            /\ kafkaAcks' = Append(kafkaAcks, WarningAck("client_ingestion_warning"))
            /\ RunStep("pluginsProcessEventStep", <<event, processPerson>>,
                       event.team_id[1], timers)
            /\ UNCHANGED outcome
       ELSE /\ RunStep("pluginsProcessEventStep", <<event, processPerson>>,
                       event.team_id[1], timers)
            /\ UNCHANGED <<kafkaAcks, warnings, outcome>>
    /\ UNCHANGED <<loaderVars,
                   hub, eventWithTeam, processedEvent, input, originalEvent, poEEmbraceJoin,
                   event, processPerson,
                   person, err, fired, stripped, dlqAttempts, queued, dlqError, dlqWrite, raised>>

\* runEventPipelineSteps: the client ingestion warning, else the plugin step.
ClientIngestionWarning ==
    /\ pc = "clientWarning"
    /\ IF event.event = "$$client_ingestion_warning"
       THEN /\ CaptureIngestionWarning(event.team_id[1], "client_ingestion_warning", TRUE)
            /\ kafkaAcks' = Append(kafkaAcks, WarningAck("client_ingestion_warning"))
            /\ Finish(RegisterLastStep("clientIngestionWarning", <<event>>,
                                       Some(kafkaAcks')), timers)
       ELSE /\ RunStep("pluginsProcessEventStep", <<event, processPerson>>,
                       event.team_id[1], timers)
            /\ UNCHANGED <<kafkaAcks, warnings, outcome>>
    /\ UNCHANGED <<loaderVars,
                   hub, eventWithTeam, processedEvent, input, originalEvent, poEEmbraceJoin,
                   event, processPerson,
                   person, err, fired, stripped, dlqAttempts, queued, dlqError, dlqWrite, raised>>

\* Mutant: the null exit registers the last step without kafkaAcks.
PluginsProcessEventStepReturnsDropsAcks ==
    /\ pc = "step"
    /\ step.name = "pluginsProcessEventStep"
    /\ fired' = ClearTimeout(fired, step.name)
    /\ \/ /\ processedEvent' = [returned |-> TRUE, value |-> Undefined]
          /\ Finish(RegisterLastStep("pluginsProcessEventStep", <<event>>, Undefined),
                    ClearTimeout(timers, step.name))
       \/ /\ processedEvent' =
                [returned |-> TRUE,
                 value |-> Some(StageOutput("pluginsProcessEventStep", step.args[1]))]
          /\ RunStep("normalizeEventStep", <<processedEvent'.value[1], processPerson>>,
                     event.team_id[1], ClearTimeout(timers, step.name))
          /\ UNCHANGED outcome
    /\ UNCHANGED <<loaderVars,
                   hub, eventWithTeam, input, originalEvent, poEEmbraceJoin, event,
                   processPerson, kafkaAcks, person, err, warnings, stripped, dlqAttempts,
                   queued, dlqError, dlqWrite, raised>>

\* pluginsProcessEventStep returns: null ends the run, an event goes on to
\* normalizeEventStep.
PluginsProcessEventStepReturns ==
    /\ pc = "step"
    /\ step.name = "pluginsProcessEventStep"
    /\ fired' = ClearTimeout(fired, step.name)
    /\ \/ /\ processedEvent' = [returned |-> TRUE, value |-> Undefined]
          /\ Finish(RegisterLastStep("pluginsProcessEventStep", <<event>>, Some(kafkaAcks)),
                    ClearTimeout(timers, step.name))
       \/ /\ processedEvent' =
                [returned |-> TRUE,
                 value |-> Some(StageOutput("pluginsProcessEventStep", step.args[1]))]
          /\ RunStep("normalizeEventStep", <<processedEvent'.value[1], processPerson>>,
                     event.team_id[1], ClearTimeout(timers, step.name))
          /\ UNCHANGED outcome
    /\ UNCHANGED <<loaderVars,
                   hub, eventWithTeam, input, originalEvent, poEEmbraceJoin, event,
                   processPerson, kafkaAcks, person, err, warnings, stripped, dlqAttempts,
                   queued, dlqError, dlqWrite, raised>>

\* normalizeEventStep returns [normalizedEvent, timestamp].
NormalizeEventStepReturns ==
    /\ pc = "step"
    /\ step.name = "normalizeEventStep"
    /\ fired' = ClearTimeout(fired, step.name)
    /\ RunStep("processPersonsStep",
               <<StageOutput("normalizeEventStep", step.args[1]), "timestamp", processPerson>>,
               event.team_id[1], ClearTimeout(timers, step.name))
    /\ UNCHANGED <<loaderVars,
                   hub, eventWithTeam, processedEvent, input, originalEvent, poEEmbraceJoin,
                   event, processPerson,
                   kafkaAcks, person, err, outcome, warnings, stripped, dlqAttempts,
                   queued, dlqError, dlqWrite, raised>>

\* Mutant: createEventStep is run on the output of processPersonsStep.
ProcessPersonsStepReturnsSkipsPrepare ==
    /\ pc = "step"
    /\ step.name = "processPersonsStep"
    /\ fired' = ClearTimeout(fired, step.name)
    /\ person' = Some([team_id |-> event.team_id[1], distinct_id |-> event.distinct_id])
    /\ RunStep("createEventStep",
               <<StageOutput("processPersonsStep", step.args[1]), person'[1], processPerson>>,
               event.team_id[1], ClearTimeout(timers, step.name))
    /\ UNCHANGED <<loaderVars,
                   hub, eventWithTeam, processedEvent, input, originalEvent, poEEmbraceJoin,
                   event, processPerson,
                   kafkaAcks, err, outcome, warnings, stripped, dlqAttempts, queued,
                   dlqError, dlqWrite, raised>>

\* processPersonsStep returns [postPersonEvent, person].
ProcessPersonsStepReturns ==
    /\ pc = "step"
    /\ step.name = "processPersonsStep"
    /\ fired' = ClearTimeout(fired, step.name)
    /\ person' = Some([team_id |-> event.team_id[1], distinct_id |-> event.distinct_id])
    /\ RunStep("prepareEventStep",
               <<StageOutput("processPersonsStep", step.args[1]), processPerson>>,
               event.team_id[1], ClearTimeout(timers, step.name))
    /\ UNCHANGED <<loaderVars,
                   hub, eventWithTeam, processedEvent, input, originalEvent, poEEmbraceJoin,
                   event, processPerson,
                   kafkaAcks, err, outcome, warnings, stripped, dlqAttempts, queued,
                   dlqError, dlqWrite, raised>>

\* Mutant: createEventStep is given the default flag, not the derived one.
PrepareEventStepReturnsDefaultFlag ==
    /\ pc = "step"
    /\ step.name = "prepareEventStep"
    /\ fired' = ClearTimeout(fired, step.name)
    /\ RunStep("createEventStep",
               <<StageOutput("prepareEventStep", step.args[1]), person[1], TRUE>>,
               event.team_id[1], ClearTimeout(timers, step.name))
    /\ UNCHANGED <<loaderVars,
                   hub, eventWithTeam, processedEvent, input, originalEvent, poEEmbraceJoin,
                   event, processPerson,
                   kafkaAcks, person, err, outcome, warnings, stripped, dlqAttempts,
                   queued, dlqError, dlqWrite, raised>>

\* prepareEventStep returns preparedEvent.
PrepareEventStepReturns ==
    /\ pc = "step"
    /\ step.name = "prepareEventStep"
    /\ fired' = ClearTimeout(fired, step.name)
    /\ RunStep("createEventStep",
               <<StageOutput("prepareEventStep", step.args[1]), person[1], processPerson>>,
               event.team_id[1], ClearTimeout(timers, step.name))
    /\ UNCHANGED <<loaderVars,
                   hub, eventWithTeam, processedEvent, input, originalEvent, poEEmbraceJoin,
                   event, processPerson,
                   kafkaAcks, person, err, outcome, warnings, stripped, dlqAttempts,
                   queued, dlqError, dlqWrite, raised>>

\* Mutant: the handles are awaited before the result is returned.
CreateEventStepReturnsAwaitsAcks ==
    /\ pc = "step"
    /\ step.name = "createEventStep"
    /\ fired' = ClearTimeout(fired, step.name)
    /\ kafkaAcks' = Append(kafkaAcks, EventAck)
    /\ timers' = ClearTimeout(timers, step.name)
    /\ pc' = "acks"
    /\ UNCHANGED <<loaderVars,
                   hub, eventWithTeam, processedEvent, input, originalEvent, poEEmbraceJoin,
                   event, processPerson, person, step, err, outcome, calls, warnings, stripped,
                   dlqAttempts, queued, dlqError, dlqWrite, raised>>

\* Mutant: eventAck is not pushed onto kafkaAcks.
CreateEventStepReturnsNoPush ==
    /\ pc = "step"
    /\ step.name = "createEventStep"
    /\ fired' = ClearTimeout(fired, step.name)
    /\ Finish(RegisterLastStep("createEventStep",
                               <<StageOutput("createEventStep", step.args[1])>>,
                               Some(kafkaAcks)),
              ClearTimeout(timers, step.name))
    /\ UNCHANGED <<loaderVars,
                   hub, eventWithTeam, processedEvent, input, originalEvent, poEEmbraceJoin,
                   event, processPerson,
                   kafkaAcks, person, err, warnings, stripped, dlqAttempts, queued, dlqError,
                   dlqWrite, raised>>

\* createEventStep returns [rawClickhouseEvent, eventAck]: the run ends.
CreateEventStepReturns ==
    /\ pc = "step"
    /\ step.name = "createEventStep"
    /\ fired' = ClearTimeout(fired, step.name)
    /\ kafkaAcks' = Append(kafkaAcks, EventAck)
    /\ Finish(RegisterLastStep("createEventStep",
                               <<StageOutput("createEventStep", step.args[1])>>,
                               Some(kafkaAcks')),
              ClearTimeout(timers, step.name))
    /\ UNCHANGED <<loaderVars,
                   hub, eventWithTeam, processedEvent, input, originalEvent, poEEmbraceJoin,
                   event, processPerson,
                   person, err, warnings, stripped, dlqAttempts, queued, dlqError, dlqWrite, raised>>

\* Mutant: queueMessage is called but its promise is not awaited.
HandleErrorNoAwait(e) ==
    /\ raised' = Some([site |-> step.name, error |-> e])
    /\ IF ShouldRetry(e)
       THEN /\ Finish(Catch(e), ClearTimeout(timers, step.name))
            /\ fired' = ClearTimeout(fired, step.name)
            /\ UNCHANGED <<err, dlqAttempts, queued, dlqError, dlqWrite>>
       ELSE IF step.sentToDql
       THEN /\ dlqAttempts' = dlqAttempts + 1
            /\ \/ \* building the message throws
                  /\ \E d \in DlqErrors : dlqError' = Some(d)
                  /\ Finish(Catch(HandleErrorThrows(step.name, step.args, e, dlqError')),
                            ClearTimeout(timers, step.name))
                  /\ fired' = ClearTimeout(fired, step.name)
                  /\ UNCHANGED <<err, queued, dlqWrite>>
               \/ \* the message is handed to the producer
                  /\ queued' = Append(queued,
                        [kafkaMessage |-> GenerateEventDeadLetterQueueMessage(
                                              originalEvent, e, step.teamId,
                                              <<"plugin_server_ingest_event:", step.name>>),
                         waitForAck |-> TRUE])
                  /\ dlqWrite' = "pending"
                  /\ err' = e
                  /\ Finish(Catch(HandleErrorThrows(step.name, step.args, e, Undefined)),
                            ClearTimeout(timers, step.name))
                  /\ fired' = ClearTimeout(fired, step.name)
                  /\ UNCHANGED dlqError
       ELSE /\ UNCHANGED <<err, dlqAttempts, queued, dlqError, dlqWrite>>
            /\ Finish(Catch(HandleErrorThrows(step.name, step.args, e, dlqError')),
                      ClearTimeout(timers, step.name))
            /\ fired' = ClearTimeout(fired, step.name)

\* The stage of the current step execution throws e: handleError up to its
\* await of the dead-letter write, or to its throw.
HandleError(e) ==
    /\ raised' = Some([site |-> step.name, error |-> e])
    /\ IF ShouldRetry(e)
       THEN /\ Finish(Catch(e), ClearTimeout(timers, step.name))
            /\ fired' = ClearTimeout(fired, step.name)
            /\ UNCHANGED <<err, dlqAttempts, queued, dlqError, dlqWrite>>
       ELSE IF step.sentToDql
       THEN /\ dlqAttempts' = dlqAttempts + 1
            /\ \/ \* building the message throws
                  /\ \E d \in DlqErrors : dlqError' = Some(d)
                  /\ Finish(Catch(HandleErrorThrows(step.name, step.args, e, dlqError')),
                            ClearTimeout(timers, step.name))
                  /\ fired' = ClearTimeout(fired, step.name)
                  /\ UNCHANGED <<err, queued, dlqWrite>>
               \/ \* the message is handed to the producer
                  /\ queued' = Append(queued,
                        [kafkaMessage |-> GenerateEventDeadLetterQueueMessage(
                                              originalEvent, e, step.teamId,
                                              <<"plugin_server_ingest_event:", step.name>>),
                         waitForAck |-> TRUE])
                  /\ dlqWrite' = "pending"
                  /\ err' = e
                  /\ pc' = "dlq"
                  /\ UNCHANGED <<outcome, timers, fired, step, calls, dlqError>>
       ELSE /\ UNCHANGED <<err, dlqAttempts, queued, dlqError, dlqWrite>>
            /\ Finish(Catch(HandleErrorThrows(step.name, step.args, e, dlqError')),
                      ClearTimeout(timers, step.name))
            /\ fired' = ClearTimeout(fired, step.name)

\* A stage throws.
StepThrows ==
    /\ pc = "step"
    /\ \E e \in StageErrors : HandleError(e)
    /\ UNCHANGED <<loaderVars,
                   hub, eventWithTeam, processedEvent, input, originalEvent, poEEmbraceJoin,
                   event, processPerson,
                   kafkaAcks, person, warnings, stripped>>

\* The dead-letter write is acknowledged or fails: handleError throws the
\* no-retry signal, which runEventPipeline turns into the result.
DeadLetterWriteDone ==
    /\ pc = "dlq"
    /\ \/ dlqError' = Undefined /\ dlqWrite' = "acked"
       \/ \E d \in DlqErrors : dlqError' = Some(d) /\ dlqWrite' = "failed"
    /\ Finish(Catch(HandleErrorThrows(step.name, step.args, err, dlqError')),
              ClearTimeout(timers, step.name))
    /\ fired' = ClearTimeout(fired, step.name)
    /\ UNCHANGED <<loaderVars,
                   hub, eventWithTeam, processedEvent, input, originalEvent, poEEmbraceJoin,
                   event, processPerson,
                   kafkaAcks, person, err, warnings, stripped, dlqAttempts, queued, raised>>

\* Mutant: the stall timer rejects the pending step execution.
TimeoutGuardFiresAborts ==
    /\ pc \in {"step", "dlq"}
    /\ \E t \in timers \ fired : fired' = fired \cup {t}
    /\ outcome' = Catch([kind |-> "Error", message |-> "timeout"])
    /\ pc' = "done"
    /\ UNCHANGED <<loaderVars,
                   hub, eventWithTeam, processedEvent, input, originalEvent, poEEmbraceJoin,
                   event, processPerson, kafkaAcks, person, step, err, timers, calls, warnings,
                   stripped, dlqAttempts, queued, dlqError, dlqWrite, raised>>

\* The stall timer of the pending step execution fires: a log line only.
TimeoutGuardFires ==
    /\ pc \in {"step", "dlq"}
    /\ \E t \in timers \ fired : fired' = fired \cup {t}
    /\ UNCHANGED <<loaderVars,
                   hub, eventWithTeam, processedEvent, input, originalEvent, poEEmbraceJoin,
                   pc, event, processPerson,
                   kafkaAcks, person, step, err, timers, outcome, calls, warnings,
                   stripped, dlqAttempts, queued, dlqError, dlqWrite, raised>>

Next ==
    \/ RunEventPipeline
    \/ PopulateTeamDataStepReturns
    \/ EmbraceJoinRouting
    \/ ProcessPersonFlag
    \/ ClientIngestionWarning
    \/ PluginsProcessEventStepReturns
    \/ NormalizeEventStepReturns
    \/ ProcessPersonsStepReturns
    \/ PrepareEventStepReturns
    \/ CreateEventStepReturns
    \/ StepThrows
    \/ DeadLetterWriteDone
    \/ TimeoutGuardFires

Spec == Init /\ [][Next]_vars

\* ------------------------------------------- failures outside the executor

\* A call of runEventPipelineSteps made outside runStep throws e: the catch
\* block of runEventPipeline receives it.
ThrowOutside(e) ==
    /\ raised' = Some([site |-> "outside", error |-> e])
    /\ Finish(Catch(e), timers)
    /\ UNCHANGED <<loaderVars,
                   hub, eventWithTeam, processedEvent, input, originalEvent, poEEmbraceJoin, event,
                   processPerson, kafkaAcks, person, err, fired, warnings, stripped,
                   dlqAttempts, queued, dlqError, dlqWrite>>

\* A routing predicate of the hub throws: poeEmbraceJoinForTeams if there is
\* one, or poeWritesExcludeTeams, called for a team id within the maximum.
RoutingPredicateThrows ==
    /\ pc = "routing"
    /\ \/ hub.poeEmbraceJoinForTeams # Undefined
       \/ event.team_id[1] <= hub.POE_WRITES_ENABLED_MAX_TEAM_ID
    /\ \E e \in OutsideErrors : ThrowOutside(e)

\* captureIngestionWarning or normalizeProcessPerson throws while the
\* $process_person property is handled.
ProcessPersonFlagThrows ==
    /\ pc = "processPerson"
    /\ ProcessPersonProp(event) \in {"false", "invalid"}
    /\ \E e \in OutsideErrors : ThrowOutside(e)

\* captureIngestionWarning throws for a client ingestion warning.
ClientIngestionWarningThrows ==
    /\ pc = "clientWarning"
    /\ event.event = "$$client_ingestion_warning"
    /\ \E e \in OutsideErrors : ThrowOutside(e)

NextOutside ==
    \/ Next
    \/ RoutingPredicateThrows
    \/ ProcessPersonFlagThrows
    \/ ClientIngestionWarningThrows

\* The run in an environment where the calls outside the step executor may
\* throw too.
SpecOutside == Init /\ [][NextOutside]_vars

\* --------------------------------------------------------------- progress

\* Every step of the run itself: the synchronous code up to the next await,
\* and the completion of the awaited stage call or dead-letter write. The
\* stall timer is left out: a timer need not fire.
Progress ==
    \/ RunEventPipeline
    \/ PopulateTeamDataStepReturns
    \/ EmbraceJoinRouting
    \/ ProcessPersonFlag
    \/ ClientIngestionWarning
    \/ PluginsProcessEventStepReturns
    \/ NormalizeEventStepReturns
    \/ ProcessPersonsStepReturns
    \/ PrepareEventStepReturns
    \/ CreateEventStepReturns
    \/ StepThrows
    \/ DeadLetterWriteDone

\* The routing flags only set poEEmbraceJoin and never steer the run, so the
\* fair runs are taken with one routing configuration: no team list, and a
\* maximum team id of 1, under which the exclusion predicate is called for
\* team 1 and not for team 2.
InitFair ==
    /\ Init
    /\ hub.poeEmbraceJoinForTeams = Undefined
    /\ hub.POE_WRITES_ENABLED_MAX_TEAM_ID = 1
    /\ hub.poeWritesExcludeTeams = {}
    /\ poEEmbraceJoin = FALSE

\* The run when every stage call and every dead-letter write eventually
\* completes and the event loop runs every continuation; code outside the
\* step executions may throw, which ends the run as well.
SpecFair == InitFair /\ [][NextOutside]_vars /\ WF_vars(Progress)

\* ------------------------------------------------ the disallow check alone

\* Inputs of isEventDisallowed: team id 0, tokens with and without an entry,
\* and drop lists with any subset of the keys, each with any of the id lists.
DisallowEvents ==
    [token : {"", "tokA", "tokB"},
     team_id : {Undefined, Some(0), Some(1)},
     distinct_id : {"u1", "u2"},
     event : {"pageview"},
     properties : {[k \in {"$set"} |-> [t |-> "object", v |-> "name"]]},
     stages : {<<>>}]

DisallowDropLists ==
    LET ids == {<<>>, <<"u1">>, <<"u2">>, <<"*">>, <<"u2", "*">>}
    IN  {Undefined} \cup
        {Some(m) : m \in UNION {[K -> ids] : K \in SUBSET {"tokA", "0", "1"}}}

InitDisallow ==
    /\ hub \in [eventsToDropByToken : DisallowDropLists,
                poeEmbraceJoinForTeams : {Undefined},
                POE_WRITES_ENABLED_MAX_TEAM_ID : {0},
                poeWritesExcludeTeams : {{}}]
    /\ input \in DisallowEvents
    /\ originalEvent = CtorEvent
    /\ poEEmbraceJoin = FALSE
    /\ pc = "start"
    /\ eventWithTeam = [returned |-> FALSE, value |-> Undefined]
    /\ processedEvent = [returned |-> FALSE, value |-> Undefined]
    /\ event = CtorEvent
    /\ processPerson = TRUE
    /\ kafkaAcks = <<>>
    /\ person = Undefined
    /\ step = NoStep
    /\ err = NoErr
    /\ timers = {}
    /\ fired = {}
    /\ outcome = NoOutcome
    /\ calls = <<>>
    /\ warnings = <<>>
    /\ stripped = <<>>
    /\ dlqAttempts = 0
    /\ queued = <<>>
    /\ dlqError = Undefined
    /\ dlqWrite = "none"
    /\ raised = Undefined
    /\ LoaderInit

\* runEventPipeline applies isEventDisallowed before anything else.
NextDisallow == RunEventPipeline

SpecDisallow == InitDisallow /\ [][NextDisallow]_vars

\* -------------------------------------------------------- loadPluginsFromDB

MaxPluginId == 2
MaxConfigRows == 2

\* personlessPluginSkipList
PersonlessPluginSkipList ==
    <<"https://github.com/posthog/currency-normalization-plugin",
      "https://github.com/posthog/event-sequence-timer-plugin",
      "https://github.com/posthog/first-event-today",
      "https://github.com/posthog/first-time-event-tracker",
      "https://github.com/posthog/mailboxlayer-plugin">>

\* String.prototype.toLowerCase on the urls of the model.
ToLowerCase(url) ==
    IF url = "https://GitHub.com/PostHog/First-Event-Today"
    THEN "https://github.com/posthog/first-event-today"
    ELSE url

\* The row of the plugin with this id: a skip-listed url in mixed case, another
\* url, or no url and no capabilities.
PluginRow(id) ==
    [id |-> id,
     url |-> IF id % 3 = 1 THEN Some("https://GitHub.com/PostHog/First-Event-Today")
             ELSE IF id % 3 = 2 THEN Some("https://example.com/plugin")
             ELSE Undefined,
     capabilities |->
         IF id % 3 = 1 THEN Some([methods |-> Some(<<"composeWebhook", "onEvent">>)])
         ELSE IF id % 3 = 2 THEN Some([methods |-> Some(<<"composeWebhook">>)])
         ELSE Undefined,
     skipped_for_personless |-> Undefined]

\* What getPluginRows may return: any of the plugins, each once, by id.
PluginRowSets ==
    LET orders == UNION {{f \in [1..n -> 1..MaxPluginId] :
                            \A i, j \in 1..n : i < j => f[i] < f[j]} :
                         n \in 0..MaxPluginId}
    IN  {[i \in DOMAIN f |-> PluginRow(f[i])] : f \in orders}

\* What getPluginAttachmentRows may return.
AttachmentRow(configId, key, contents) ==
    [plugin_config_id |-> configId, key |-> key, content_type |-> "text/plain",
     file_name |-> key, contents |-> contents]
AttachmentRowSets ==
    {<<>>,
     <<AttachmentRow(1, "a", "x"), AttachmentRow(1, "a", "y")>>,
     <<AttachmentRow(2, "b", "x"), AttachmentRow(1, "a", "x")>>}

\* What getPluginConfigRows may return: up to MaxConfigRows rows with distinct
\* ids, in ascending or descending order of id, each of any plugin and of any
\* team or none.
PluginConfigRowSets ==
    UNION {UNION {{[i \in 1..n |-> [id |-> IF asc THEN i ELSE n + 1 - i,
                                    plugin_id |-> f[i][1],
                                    team_id |-> f[i][2]]] :
                   f \in [1..n -> (1..MaxPluginId) \X
                                  ({Undefined} \cup {Some(t) : t \in 1..MaxTeamId})]} :
                  asc \in BOOLEAN} :
           n \in 0..MaxConfigRows}

\* Map.prototype.set
MapSet(map, key, value) ==
    [k \in DOMAIN map \cup {key} |-> IF k = key THEN value ELSE map[k]]

\* The first loop: the skip-listed plugins are marked, every row is indexed.
RECURSIVE LoadPlugins(_, _, _)
LoadPlugins(rows, i, map) ==
    IF i > Len(rows) THEN map
    ELSE LET row == rows[i]
             marked == IF row.url # Undefined
                          /\ Includes(PersonlessPluginSkipList, ToLowerCase(row.url[1]))
                       THEN [row EXCEPT !.skipped_for_personless = Some(TRUE)]
                       ELSE row
         IN  LoadPlugins(rows, i + 1, MapSet(map, row.id, marked))

\* The second loop: the attachments of each config, by key.
RECURSIVE LoadAttachments(_, _, _)
LoadAttachments(rows, i, map) ==
    IF i > Len(rows) THEN map
    ELSE LET row == rows[i]
             attachments == IF row.plugin_config_id \in DOMAIN map
                            THEN map[row.plugin_config_id] ELSE EmptyMap
             attachment == [content_type |-> row.content_type, file_name |-> row.file_name,
                            contents |-> row.contents]
         IN  LoadAttachments(rows, i + 1,
                             MapSet(map, row.plugin_config_id,
                                    MapSet(attachments, row.key, attachment)))

\* The method of a plugin: onEvent before composeWebhook, else none.
PluginMethodOf(plugin) ==
    IF plugin.capabilities # Undefined /\ plugin.capabilities[1].methods # Undefined
    THEN LET methods == plugin.capabilities[1].methods[1]
         IN  IF Includes(methods, "onEvent") THEN Some("onEvent")
             ELSE IF Includes(methods, "composeWebhook") THEN Some("composeWebhook")
             ELSE Undefined
    ELSE Undefined

\* Mutant: the config is put at the front of its team's list.
AddPluginConfigUnshift(maps, row) ==
    IF row.plugin_id \notin DOMAIN plugins THEN maps
    ELSE LET plugin == plugins[row.plugin_id]
             pluginConfig ==
                 [id |-> row.id, plugin_id |-> row.plugin_id, team_id |-> row.team_id,
                  plugin |-> plugin,
                  attachments |-> IF row.id \in DOMAIN attachmentsPerConfig
                                  THEN attachmentsPerConfig[row.id] ELSE EmptyMap,
                  vm |-> Undefined,
                  method |-> PluginMethodOf(plugin)]
             configs == MapSet(maps.pluginConfigs, row.id, pluginConfig)
         IN  IF row.team_id = Undefined \/ row.team_id[1] = 0
             THEN [maps EXCEPT !.pluginConfigs = configs]
             ELSE LET team == row.team_id[1]
                      teamConfigs == IF team \in DOMAIN maps.pluginConfigsPerTeam
                                     THEN maps.pluginConfigsPerTeam[team] ELSE <<>>
                  IN  [pluginConfigs |-> configs,
                       pluginConfigsPerTeam |->
                           MapSet(maps.pluginConfigsPerTeam, team,
                                  <<pluginConfig>> \o teamConfigs)]

\* The body of the third loop: a row whose plugin is not loaded is skipped;
\* the config is indexed by id, and under its team if it has one.
AddPluginConfig(maps, row) ==
    IF row.plugin_id \notin DOMAIN plugins THEN maps
    ELSE LET plugin == plugins[row.plugin_id]
             pluginConfig ==
                 [id |-> row.id, plugin_id |-> row.plugin_id, team_id |-> row.team_id,
                  plugin |-> plugin,
                  attachments |-> IF row.id \in DOMAIN attachmentsPerConfig
                                  THEN attachmentsPerConfig[row.id] ELSE EmptyMap,
                  vm |-> Undefined,
                  method |-> PluginMethodOf(plugin)]
             configs == MapSet(maps.pluginConfigs, row.id, pluginConfig)
         IN  IF row.team_id = Undefined \/ row.team_id[1] = 0
             THEN [maps EXCEPT !.pluginConfigs = configs]
             ELSE LET team == row.team_id[1]
                      teamConfigs == IF team \in DOMAIN maps.pluginConfigsPerTeam
                                     THEN maps.pluginConfigsPerTeam[team] ELSE <<>>
                  IN  [pluginConfigs |-> configs,
                       pluginConfigsPerTeam |->
                           MapSet(maps.pluginConfigsPerTeam, team,
                                  Append(teamConfigs, pluginConfig))]

\* The third loop.
RECURSIVE LoadPluginConfigs(_, _, _)
LoadPluginConfigs(rows, i, maps) ==
    IF i > Len(rows) THEN maps
    ELSE LoadPluginConfigs(rows, i + 1, AddPluginConfig(maps, rows[i]))

\* getPluginRows returns: the plugins are indexed, the attachments are asked for.
GetPluginRowsReturns ==
    /\ loaderPc = "getPluginRows"
    /\ \E rows \in PluginRowSets :
         /\ pluginRows' = rows
         /\ plugins' = LoadPlugins(rows, 1, EmptyMap)
    /\ loaderPc' = "getPluginAttachmentRows"
    /\ UNCHANGED <<runnerVars, attachmentsPerConfig, pluginConfigRows, pluginConfigs,
                   pluginConfigsPerTeam>>

\* getPluginAttachmentRows returns: the attachments are grouped by config, the
\* config rows are asked for.
GetPluginAttachmentRowsReturns ==
    /\ loaderPc = "getPluginAttachmentRows"
    /\ \E rows \in AttachmentRowSets :
         attachmentsPerConfig' = LoadAttachments(rows, 1, EmptyMap)
    /\ loaderPc' = "getPluginConfigRows"
    /\ UNCHANGED <<runnerVars, pluginRows, plugins, pluginConfigRows, pluginConfigs,
                   pluginConfigsPerTeam>>

\* getPluginConfigRows returns: the two config indexes are built and
\* loadPluginsFromDB returns.
GetPluginConfigRowsReturns ==
    /\ loaderPc = "getPluginConfigRows"
    /\ \E rows \in PluginConfigRowSets :
         LET maps == LoadPluginConfigs(rows, 1, [pluginConfigs |-> EmptyMap,
                                                 pluginConfigsPerTeam |-> EmptyMap])
         IN  /\ pluginConfigRows' = rows
             /\ pluginConfigs' = maps.pluginConfigs
             /\ pluginConfigsPerTeam' = maps.pluginConfigsPerTeam
    /\ loaderPc' = "returned"
    /\ UNCHANGED <<runnerVars, pluginRows, plugins, attachmentsPerConfig>>

\* loadPluginsFromDB runs on its own: no runner is involved.
InitLoader ==
    /\ Init
    /\ hub = [eventsToDropByToken |-> Undefined, poeEmbraceJoinForTeams |-> Undefined,
              POE_WRITES_ENABLED_MAX_TEAM_ID |-> 0, poeWritesExcludeTeams |-> {}]
    /\ input.token = ""
    /\ input.team_id = Undefined
    /\ input.distinct_id = "u1"
    /\ input.event = "pageview"
    /\ DOMAIN input.properties = {"$set"}
    /\ poEEmbraceJoin = FALSE

NextLoader ==
    \/ GetPluginRowsReturns
    \/ GetPluginAttachmentRowsReturns
    \/ GetPluginConfigRowsReturns

SpecLoader == InitLoader /\ [][NextLoader]_vars

\* ------------------------------------------------------------------ claims

StageNames ==
    {"populateTeamDataStep", "pluginsProcessEventStep", "normalizeEventStep",
     "processPersonsStep", "prepareEventStep", "createEventStep"}

\* The acknowledgement handles of the returned result.
AckHandles == IF outcome.ackPromises = Undefined THEN <<>> ELSE outcome.ackPromises[1]

\* A stage raised an error of the retryable kind / of another kind.
StageRaisedRetryable ==
    /\ raised # Undefined
    /\ raised[1].site \in StageNames
    /\ raised[1].error.kind = "DependencyUnavailableError"
StageRaisedOther ==
    /\ raised # Undefined
    /\ raised[1].site \in StageNames
    /\ raised[1].error.kind # "DependencyUnavailableError"

\* The team was resolved and runEventPipelineSteps is past its handling of
\* the $process_person property.
PastProcessPersonFlag ==
    /\ eventWithTeam.value # Undefined
    /\ pc \notin {"routing", "processPerson"}

\* The $process_person property of the team-populated event, if present.
PopulatedHas(v) ==
    /\ eventWithTeam.value # Undefined
    /\ "$process_person" \in DOMAIN eventWithTeam.value[1].properties
    /\ eventWithTeam.value[1].properties["$process_person"] = v
PopulatedLacksProcessPerson ==
    /\ eventWithTeam.value # Undefined
    /\ "$process_person" \notin DOMAIN eventWithTeam.value[1].properties
PopulatedHasInvalid ==
    /\ eventWithTeam.value # Undefined
    /\ "$process_person" \in DOMAIN eventWithTeam.value[1].properties
    /\ eventWithTeam.value[1].properties["$process_person"] \notin {JsTrue, JsFalse}
PopulatedIsReserved ==
    /\ eventWithTeam.value # Undefined
    /\ eventWithTeam.value[1].event \in
         {"$identify", "$create_alias", "$merge_dangerously", "$groupidentify"}

\* C1: if a stage run through the step executor raises the retryable
\* dependency error, the run has ended by throwing that very error: no
\* PipelineResult, no dead-letter write attempted, nothing handed to the
\* producer.
C1_RetryableErrorIsRethrown ==
    StageRaisedRetryable =>
        /\ pc = "done"
        /\ outcome.kind = "thrown"
        /\ outcome.thrown = raised[1].error
        /\ dlqAttempts = 0
        /\ queued = <<>>

C1_Witness ==
    /\ StageRaisedRetryable
    /\ raised[1].site = "processPersonsStep"
    /\ outcome.kind = "thrown"

\* C2 as stated: after a non-retryable stage error the run returns a result
\* naming the failed stage, with a non-empty error field, after exactly one
\* dead-letter write attempt.
C2_ErrorFieldNonEmpty ==
    (StageRaisedOther /\ pc = "done") =>
        /\ outcome.kind = "result"
        /\ outcome.lastStep = raised[1].site
        /\ outcome.error # Undefined
        /\ outcome.error[1] # ""
        /\ dlqAttempts = 1

\* C3 as stated: when the dead-letter write of a non-retryable stage failure fails too
\* (building the message or queueMessage raises), the run still returns the
\* result naming the failing stage with the stage error's message, not the
\* dead-letter error, and nothing is thrown.
C3_DeadLetterFailureNotEscalated ==
    (dlqError # Undefined) =>
        /\ pc = "done"
        /\ StageRaisedOther
        /\ outcome.kind = "result"
        /\ outcome.lastStep = raised[1].site
        /\ outcome.error = Some(raised[1].error.message)
        /\ outcome.error # Some(dlqError[1].message)

\* C4 as stated: the run ends by throwing only for a retryable dependency
\* error; a failure raised outside a step-executor call resolves to a result.
C4_OnlyRetryableThrown ==
    (pc = "done" /\ raised # Undefined /\ raised[1].error.kind # "DependencyUnavailableError")
        => outcome.kind = "result"

\* C4 as amended: unless a stage rejected with null or undefined, the run
\* ends by throwing exactly when a stage raised the retryable dependency error
\* or a call outside the step executor raised any error, and what is thrown
\* is that error; every other run returns a result.
C4_ThrownIffRetryableOrOutside ==
    (pc = "done" /\ ~(raised # Undefined /\ Nullish(raised[1].error))) =>
        /\ outcome.kind \in {"result", "thrown"}
        /\ outcome.kind = "thrown" <=>
             /\ raised # Undefined
             /\ \/ raised[1].site = "outside"
                \/ raised[1].error.kind = "DependencyUnavailableError"
        /\ outcome.kind = "thrown" => outcome.thrown = raised[1].error

C4_Witness ==
    /\ pc = "done"
    /\ raised # Undefined
    /\ raised[1].site = "outside"
    /\ raised[1].error.kind = "TypeError"
    /\ warnings # <<>>
    /\ outcome.kind = "thrown"

\* C5 as stated: a returned result holds every acknowledgement handle
\* produced in the run.
C5_AcksNeverDiscarded ==
    outcome.kind = "result" =>
        \A i \in 1..Len(warnings) : Includes(AckHandles, WarningAck(warnings[i].type))

\* The drop-list holds the event's distinct id or the wildcard under the
\* event's key: its token if non-empty, else its team id as a string.
InDropList(e) ==
    LET key == IF e.token # "" THEN e.token
               ELSE IF e.team_id # Undefined THEN NumberToString(e.team_id[1])
               ELSE ""
        map == hub.eventsToDropByToken
    IN  /\ key # ""
        /\ map # Undefined
        /\ key \in DOMAIN map[1]
        /\ \E i \in 1..Len(map[1][key]) : map[1][key][i] \in {e.distinct_id, "*"}

\* C6: for an event in the drop-list the run returns eventDisallowedStep
\* with no acknowledgement handles, and no stage was executed and no warning
\* or dead-letter message produced.
C6_DisallowedEventStopsAtOnce ==
    (pc # "start" /\ InDropList(input)) =>
        /\ pc = "done"
        /\ outcome.kind = "result"
        /\ outcome.lastStep = "eventDisallowedStep"
        /\ outcome.error = Undefined
        /\ AckHandles = <<>>
        /\ calls = <<>>
        /\ warnings = <<>>
        /\ dlqAttempts = 0
        /\ queued = <<>>

C6_Witness ==
    /\ pc = "done"
    /\ outcome.lastStep = "eventDisallowedStep"
    /\ input.token = ""
    /\ input.distinct_id = "u2"

\* C7: when populateTeamDataStep returns null the run returns
\* populateTeamDataStep with no acknowledgement handles, throws nothing, and
\* no later stage was executed and no warning produced.
C7_NullTeamStopsAtPopulate ==
    (eventWithTeam.returned /\ eventWithTeam.value = Undefined) =>
        /\ pc = "done"
        /\ outcome.kind = "result"
        /\ outcome.lastStep = "populateTeamDataStep"
        /\ outcome.error = Undefined
        /\ AckHandles = <<>>
        /\ Len(calls) = 1
        /\ calls[1].step = "populateTeamDataStep"
        /\ warnings = <<>>
        /\ queued = <<>>

C7_Witness ==
    /\ eventWithTeam.returned
    /\ eventWithTeam.value = Undefined
    /\ outcome.lastStep = "populateTeamDataStep"

\* C8: a team-resolved event with $process_person = false and a reserved
\* name ends at invalidEventForProvidedFlags with exactly one handle, that
\* of an always-delivered warning, and no stage after team population ran.
C8_InvalidEventForProvidedFlags ==
    (PastProcessPersonFlag /\ PopulatedHas(JsFalse) /\ PopulatedIsReserved) =>
        /\ pc = "done"
        /\ outcome.kind = "result"
        /\ outcome.lastStep = "invalidEventForProvidedFlags"
        /\ Len(AckHandles) = 1
        /\ Len(warnings) = 1
        /\ warnings[1].type = "invalid_event_when_process_person_is_false"
        /\ warnings[1].alwaysSend
        /\ AckHandles[1] = WarningAck(warnings[1].type)
        /\ Len(calls) = 1

C8_Witness ==
    /\ PastProcessPersonFlag
    /\ PopulatedHas(JsFalse)
    /\ eventWithTeam.value[1].event = "$groupidentify"
    /\ outcome.lastStep = "invalidEventForProvidedFlags"

\* What holds past the handling of $process_person when the property is
\* absent: person processing enabled, the event untouched, no exit at
\* invalidEventForProvidedFlags, every later stage given processPerson = true.
ProceedsAsDefault ==
    /\ processPerson
    /\ event = eventWithTeam.value[1]
    /\ stripped = <<>>
    /\ outcome.lastStep # "invalidEventForProvidedFlags"
    /\ \A i \in 2..Len(calls) :
         /\ calls[i].args[Len(calls[i].args)] = TRUE
         /\ calls[i].step = "pluginsProcessEventStep" =>
              calls[i].args[1] = eventWithTeam.value[1]

\* C9: with $process_person present and not a boolean the run proceeds as it
\* does with the property absent, and exactly one invalid_process_person
\* warning, best-effort, is queued, its handle among the accumulated ones.
C9_InvalidProcessPersonIsDefault ==
    /\ (PastProcessPersonFlag /\ PopulatedLacksProcessPerson) =>
          /\ ProceedsAsDefault
          /\ \A i \in 1..Len(warnings) : warnings[i].type # "invalid_process_person"
    /\ (PastProcessPersonFlag /\ PopulatedHasInvalid) =>
          /\ ProceedsAsDefault
          /\ Cardinality({i \in 1..Len(warnings) :
                            warnings[i].type = "invalid_process_person"}) = 1
          /\ warnings[1].type = "invalid_process_person"
          /\ ~warnings[1].alwaysSend
          /\ kafkaAcks # <<>>
          /\ kafkaAcks[1] = WarningAck("invalid_process_person")

C9_Witness ==
    /\ PastProcessPersonFlag
    /\ PopulatedHas([t |-> "string", v |-> "yes"])
    /\ outcome.lastStep = "createEventStep"
    /\ Len(AckHandles) = 2

\* C10: normalizeProcessPerson is called, before the plugin step, exactly
\* when $process_person is boolean false and the name is not reserved; with
\* the property absent or true the plugin step gets the team-populated event.
C10_StripsExactlyWhenDisabled ==
    PastProcessPersonFlag =>
        /\ stripped = IF PopulatedHas(JsFalse) /\ ~PopulatedIsReserved
                      THEN <<eventWithTeam.value[1]>> ELSE <<>>
        /\ \A i \in 1..Len(calls) :
             calls[i].step = "pluginsProcessEventStep" =>
               calls[i].args[1] =
                 IF PopulatedHas(JsFalse)
                 THEN NormalizeProcessPerson(eventWithTeam.value[1], FALSE)
                 ELSE eventWithTeam.value[1]

C10_Witness ==
    /\ PastProcessPersonFlag
    /\ PopulatedHas(JsFalse)
    /\ stripped # <<>>
    /\ Len(calls) >= 2
    /\ calls[2].step = "pluginsProcessEventStep"
    /\ "$set" \notin DOMAIN calls[2].args[1].properties

\* The stages in the order runEventPipeline and runEventPipelineSteps call
\* them, and the handles of the warnings emitted so far, in emission order.
StageOrder ==
    <<"populateTeamDataStep", "pluginsProcessEventStep", "normalizeEventStep",
      "processPersonsStep", "prepareEventStep", "createEventStep">>
WarningHandles == [i \in 1..Len(warnings) |-> WarningAck(warnings[i].type)]
EarlyExits ==
    {"eventDisallowedStep", "populateTeamDataStep", "invalidEventForProvidedFlags",
     "clientIngestionWarning", "pluginsProcessEventStep"}

\* C11: a team-resolved event named $$client_ingestion_warning that the
\* $process_person check did not end emits exactly one always-delivered
\* client_ingestion_warning and ends at clientIngestionWarning; the result
\* lists the handles of all warnings in emission order, that warning's last;
\* the plugin step and the later stages are never called.
C11_ClientIngestionWarningStops ==
    ( /\ PastProcessPersonFlag
      /\ pc # "clientWarning"
      /\ eventWithTeam.value[1].event = "$$client_ingestion_warning"
      /\ outcome.lastStep # "invalidEventForProvidedFlags" ) =>
        /\ pc = "done"
        /\ outcome.kind = "result"
        /\ outcome.lastStep = "clientIngestionWarning"
        /\ outcome.error = Undefined
        /\ Cardinality({i \in 1..Len(warnings) :
                          warnings[i].type = "client_ingestion_warning"}) = 1
        /\ warnings[Len(warnings)] =
             [teamId |-> eventWithTeam.value[1].team_id[1],
              type |-> "client_ingestion_warning",
              event |-> "$$client_ingestion_warning",
              distinctId |-> eventWithTeam.value[1].distinct_id,
              alwaysSend |-> TRUE]
        /\ outcome.ackPromises = Some(WarningHandles)
        /\ AckHandles[Len(AckHandles)] = WarningAck("client_ingestion_warning")
        /\ Len(calls) = 1
        /\ calls[1].step = "populateTeamDataStep"

C11_Witness ==
    /\ PastProcessPersonFlag
    /\ eventWithTeam.value[1].event = "$$client_ingestion_warning"
    /\ PopulatedHas([t |-> "string", v |-> "yes"])
    /\ outcome.lastStep = "clientIngestionWarning"
    /\ AckHandles = <<WarningAck("invalid_process_person"),
                      WarningAck("client_ingestion_warning")>>

\* C12: when pluginsProcessEventStep returns null the run ends with a result
\* at pluginsProcessEventStep carrying the handles gathered so far;
\* normalizeEventStep, processPersonsStep, prepareEventStep and
\* createEventStep are never called and nothing goes to the dead-letter queue.
C12_NullFromPluginsStops ==
    (processedEvent.returned /\ processedEvent.value = Undefined) =>
        /\ pc = "done"
        /\ outcome.kind = "result"
        /\ outcome.lastStep = "pluginsProcessEventStep"
        /\ outcome.error = Undefined
        /\ outcome.ackPromises = Some(WarningHandles)
        /\ Len(calls) = 2
        /\ calls[2].step = "pluginsProcessEventStep"
        /\ dlqAttempts = 0
        /\ queued = <<>>

C12_Witness ==
    /\ processedEvent.returned
    /\ processedEvent.value = Undefined
    /\ outcome.lastStep = "pluginsProcessEventStep"
    /\ AckHandles = <<WarningAck("invalid_process_person")>>

\* C13: when all six stages were called and none raised, the finished run
\* returns a result at createEventStep whose only argument is the record
\* createEventStep returned, and whose handles are those of the warnings in
\* emission order followed by the event-write handle: with no warning,
\* exactly that one handle.
C13_FullSuccessResult ==
    (pc = "done" /\ Len(calls) = 6 /\ raised = Undefined) =>
        /\ outcome.kind = "result"
        /\ outcome.lastStep = "createEventStep"
        /\ outcome.error = Undefined
        /\ outcome.args = <<StageOutput("createEventStep", calls[6].args[1])>>
        /\ outcome.args[1].stages = StageOrder
        /\ outcome.ackPromises = Some(WarningHandles \o <<EventAck>>)
        /\ (warnings = <<>> => AckHandles = <<EventAck>>)

C13_Witness ==
    /\ pc = "done"
    /\ Len(calls) = 6
    /\ raised = Undefined
    /\ warnings = <<>>
    /\ outcome.lastStep = "createEventStep"
    /\ AckHandles = <<EventAck>>

\* C14: the stages are called in the fixed order populateTeamDataStep,
\* pluginsProcessEventStep, normalizeEventStep, processPersonsStep,
\* prepareEventStep, createEventStep, each at most once; a stage is called
\* only with the non-null output of the stage before it, never after a stage
\* raised; a finished run that did not call all six ended at an early exit or
\* at a stage failure.
C14_StagesInFixedOrder ==
    /\ Len(calls) <= Len(StageOrder)
    /\ \A i \in 1..Len(calls) :
         /\ calls[i].step = StageOrder[i]
         /\ calls[i].args[1].stages = SubSeq(StageOrder, 1, i - 1)
    /\ Len(calls) >= 2 => eventWithTeam.returned /\ eventWithTeam.value # Undefined
    /\ Len(calls) >= 3 =>
         /\ processedEvent.returned
         /\ processedEvent.value = Some(calls[3].args[1])
    /\ raised # Undefined => raised[1].site = calls[Len(calls)].step
    /\ (pc = "done" /\ Len(calls) < Len(StageOrder)) =>
         \/ raised # Undefined
         \/ outcome.kind = "result" /\ outcome.lastStep \in EarlyExits

C14_Witness ==
    /\ Len(calls) = 6
    /\ pc = "step"
    /\ step.name = "createEventStep"
    /\ stripped # <<>>

\* C15: while a step execution is pending exactly its own stall timer is
\* armed, and whichever way it ends (the stage returns, the retryable error
\* is rethrown, the no-retry signal is raised after an acknowledged or a
\* failed dead-letter write) the timer is disarmed: outside a step execution,
\* and so once the run has ended, no timer is armed.
C15_StallTimerDisarmed ==
    /\ pc \in {"step", "dlq"} => timers = {step.name}
    /\ pc \notin {"step", "dlq"} => timers = {} /\ fired = {}

C15_Witness ==
    /\ pc = "done"
    /\ StageRaisedOther
    /\ raised[1].site = "prepareEventStep"
    /\ dlqWrite = "failed"
    /\ Len(calls) = 5
    /\ timers = {}

\* Any of the six stages returns.
StageReturns ==
    \/ PopulateTeamDataStepReturns
    \/ PluginsProcessEventStepReturns
    \/ NormalizeEventStepReturns
    \/ ProcessPersonsStepReturns
    \/ PrepareEventStepReturns
    \/ CreateEventStepReturns

\* C16: the stall timer only monitors. A step in which a timer fires changes
\* nothing but the record of fired timers, and after it fired the pending
\* stage can still return or raise, and the pending dead-letter write can
\* still complete, as before.
C16_StallTimerOnlyMonitors ==
    /\ [][(fired \subseteq fired' /\ fired' # fired) =>
            UNCHANGED <<loaderVars,
                   hub, input, originalEvent, poEEmbraceJoin, pc, eventWithTeam,
                        processedEvent, event, processPerson, kafkaAcks, person, step, err,
                        timers, outcome, calls, warnings, stripped, dlqAttempts, queued,
                        dlqError, dlqWrite, raised>>]_vars
    /\ []((fired # {} /\ pc = "step") => (ENABLED StageReturns /\ ENABLED StepThrows))
    /\ []((fired # {} /\ pc = "dlq") => ENABLED DeadLetterWriteDone)

C16_Witness ==
    /\ pc = "dlq"
    /\ fired = {"normalizeEventStep"}
    /\ dlqWrite = "pending"

\* C17: the record handed to the dead-letter queue carries the event exactly
\* as it was passed to runEventPipeline (not the constructor's event, not the
\* team-populated, stripped or stage-transformed one), the error the stage
\* raised, the team id given to that step execution and a source label
\* naming the failing stage.
C17_DeadLetterCarriesOriginalEvent ==
    /\ Len(queued) <= 1
    /\ \A i \in 1..Len(queued) :
         /\ raised # Undefined
         /\ queued[i].kafkaMessage =
              GenerateEventDeadLetterQueueMessage(
                  input, raised[1].error, calls[Len(calls)].teamId,
                  <<"plugin_server_ingest_event:", raised[1].site>>)
         /\ queued[i].kafkaMessage.event.stages = <<>>
         /\ calls[Len(calls)].step = raised[1].site

C17_Witness ==
    /\ Len(queued) = 1
    /\ raised[1].site = "normalizeEventStep"
    /\ stripped # <<>>
    /\ queued[1].kafkaMessage.event = input
    /\ queued[1].kafkaMessage.event # calls[3].args[1]
    /\ "$set" \in DOMAIN queued[1].kafkaMessage.event.properties

\* C20: after a non-retryable stage failure the dead-letter write, once
\* handed to the producer, is awaited: while it is pending the run has no
\* outcome, and the failure result exists only when the write was
\* acknowledged or failed (or its message could not be built).
C20_DeadLetterWriteAwaited ==
    /\ dlqWrite = "pending" => (pc = "dlq" /\ outcome = NoOutcome)
    /\ (StageRaisedOther /\ outcome.kind # "none") =>
         /\ dlqAttempts = 1
         /\ \/ Len(queued) = 1 /\ dlqWrite \in {"acked", "failed"}
            \/ queued = <<>> /\ dlqWrite = "none" /\ dlqError # Undefined

C20_Witness ==
    /\ StageRaisedOther
    /\ pc = "done"
    /\ outcome.kind = "result"
    /\ outcome.error # Undefined
    /\ Len(queued) = 1
    /\ dlqWrite = "acked"

\* The lookup key as the claim words it: the token if present and non-empty,
\* otherwise the team id as a string, otherwise none.
LookupKey(e) ==
    IF e.token # "" THEN Some(e.token)
    ELSE IF e.team_id = Undefined THEN Undefined
    ELSE Some(IF e.team_id[1] = 0 THEN "0" ELSE IF e.team_id[1] = 1 THEN "1" ELSE "2")
HasDropEntry(e) ==
    /\ LookupKey(e) # Undefined
    /\ hub.eventsToDropByToken # Undefined
    /\ LookupKey(e)[1] \in DOMAIN hub.eventsToDropByToken[1]

\* C19: the disallow check drops the event exactly when a lookup key exists
\* and the drop-list entry of that key holds the event's distinct id or "*";
\* an event with neither token nor team id, or whose key has no entry, is not
\* dropped and goes on to populateTeamDataStep.
C19_DisallowDecisionExact ==
    pc # "start" =>
        LET dropped == pc = "done" /\ outcome = RegisterLastStep("eventDisallowedStep",
                                                                <<input>>, Undefined)
            entry == hub.eventsToDropByToken[1][LookupKey(input)[1]]
        IN  /\ dropped <=>
                 /\ HasDropEntry(input)
                 /\ \E i \in 1..Len(entry) : entry[i] \in {input.distinct_id, "*"}
            /\ ~HasDropEntry(input) => ~dropped
            /\ ~dropped =>
                 /\ pc = "step"
                 /\ step.name = "populateTeamDataStep"
                 /\ calls[1].args = <<input>>
                 /\ outcome = NoOutcome

C19_Witness ==
    /\ pc = "done"
    /\ outcome.lastStep = "eventDisallowedStep"
    /\ input.token = ""
    /\ input.team_id = Some(0)
    /\ input.distinct_id = "u1"
    /\ hub.eventsToDropByToken # Undefined
    /\ DOMAIN hub.eventsToDropByToken[1] = {"tokA", "0"}
    /\ hub.eventsToDropByToken[1]["0"] = <<"u2", "*">>

\* C18 as stated: when every stage call and dead-letter write eventually
\* completes, the run eventually ends with exactly one outcome that never
\* changes, a result or a thrown error, and a thrown error only when the
\* retryable dependency error was raised.
C18_ThrownOnlyWhenRetryable ==
    /\ <>(pc = "done")
    /\ [](pc = "done" <=> outcome.kind \in {"result", "thrown"})
    /\ [][outcome # NoOutcome => outcome' = outcome]_vars
    /\ [](outcome.kind = "thrown" =>
            /\ raised # Undefined
            /\ raised[1].error.kind = "DependencyUnavailableError")

\* C18 as amended: when every stage call and dead-letter write eventually
\* completes, the run eventually ends; it has ended exactly when it has an
\* outcome, a result or a thrown error, and an outcome once set never changes.
\* Unless a stage rejected with null or undefined, the outcome is a thrown
\* error exactly when a stage raised the retryable dependency error or an error
\* was raised outside a step execution, and the error thrown is that error. No
\* step of the model resolves an acknowledgement handle, so ending does not
\* wait for one.
C18_RunTerminatesOnce ==
    /\ <>(pc = "done")
    /\ [](pc = "done" <=> outcome.kind \in {"result", "thrown"})
    /\ [][outcome # NoOutcome => outcome' = outcome]_vars
    /\ []((pc = "done" /\ ~(raised # Undefined /\ Nullish(raised[1].error))) =>
            /\ outcome.kind = "thrown" <=>
                 /\ raised # Undefined
                 /\ \/ raised[1].site = "outside"
                    \/ raised[1].error.kind = "DependencyUnavailableError"
            /\ outcome.kind = "thrown" => outcome.thrown = raised[1].error)

\* A run ended by the TypeError thrown where the routing predicate is called,
\* before any stage after populateTeamDataStep and with both acknowledgement
\* handles never created.
C18_Witness ==
    /\ pc = "done"
    /\ outcome.kind = "thrown"
    /\ outcome.thrown.kind = "TypeError"
    /\ raised # Undefined
    /\ raised[1].site = "outside"
    /\ Len(calls) = 1
    /\ AckHandles = <<>>

\* C21: past the $process_person check the flag is false exactly when the
\* property of the team-populated event is boolean false, and true when it is
\* absent, true or invalid; the plugin step (as runDeprecatedPlugins) and
\* normalizeEventStep, processPersonsStep, prepareEventStep and
\* createEventStep (as processPerson) are all called with that one value.
C21_ProcessPersonFlagConsistent ==
    PastProcessPersonFlag =>
        /\ processPerson = ~PopulatedHas(JsFalse)
        /\ \A i \in 2..Len(calls) :
             calls[i].args[Len(calls[i].args)] = ~PopulatedHas(JsFalse)

C21_Witness ==
    /\ PastProcessPersonFlag
    /\ PopulatedHas(JsFalse)
    /\ Len(calls) = 6
    /\ \A i \in 2..6 : calls[i].args[Len(calls[i].args)] = FALSE

\* The routing condition as the claim words it, for the resolved team.
RoutedToEmbraceJoin ==
    LET team == eventWithTeam.value[1].team_id[1]
    IN  \/ /\ hub.poeEmbraceJoinForTeams # Undefined
           /\ team \in hub.poeEmbraceJoinForTeams[1]
        \/ /\ ~(team > hub.POE_WRITES_ENABLED_MAX_TEAM_ID)
           /\ team \notin hub.poeWritesExcludeTeams

\* Where a run that returned a result ended and how many stages it called,
\* told from the drop list, what the stages returned or raised and the
\* event's name and properties: the embrace-join flag plays no part.
FlowLastStep ==
    IF raised # Undefined THEN raised[1].site
    ELSE IF InDropList(input) THEN "eventDisallowedStep"
    ELSE IF eventWithTeam.value = Undefined THEN "populateTeamDataStep"
    ELSE IF PopulatedHas(JsFalse) /\ PopulatedIsReserved THEN "invalidEventForProvidedFlags"
    ELSE IF eventWithTeam.value[1].event = "$$client_ingestion_warning"
         THEN "clientIngestionWarning"
    ELSE IF processedEvent.value = Undefined THEN "pluginsProcessEventStep"
    ELSE "createEventStep"
FlowStageCount ==
    IF raised # Undefined THEN CHOOSE i \in 1..Len(StageOrder) : StageOrder[i] = raised[1].site
    ELSE IF FlowLastStep = "eventDisallowedStep" THEN 0
    ELSE IF FlowLastStep \in {"populateTeamDataStep", "invalidEventForProvidedFlags",
                              "clientIngestionWarning"} THEN 1
    ELSE IF FlowLastStep = "pluginsProcessEventStep" THEN 2
    ELSE Len(StageOrder)

\* C22: the first step of runEventPipelineSteps sets the embrace-join flag to
\* true when the team is routed to embrace-join or its id is at or below the
\* maximum and not excluded, and leaves it as constructed otherwise; no other
\* step changes the flag and none sets it back to false; the stages called
\* and the lastStep of the result are those the flow gives without the flag.
C22_EmbraceJoinFlagOnlyRaised ==
    /\ [][pc = "routing" =>
            poEEmbraceJoin' = (IF RoutedToEmbraceJoin THEN TRUE ELSE poEEmbraceJoin)]_vars
    /\ [][pc # "routing" => poEEmbraceJoin' = poEEmbraceJoin]_vars
    /\ [][poEEmbraceJoin => poEEmbraceJoin']_vars
    /\ []((pc = "done" /\ outcome.kind = "result") =>
            /\ outcome.lastStep = FlowLastStep
            /\ Len(calls) = FlowStageCount)

C22_Witness ==
    /\ pc = "done"
    /\ outcome.lastStep = "createEventStep"
    /\ eventWithTeam.value[1].team_id[1] = 2
    /\ hub.poeEmbraceJoinForTeams = Some({1})
    /\ hub.POE_WRITES_ENABLED_MAX_TEAM_ID = 1
    /\ ~RoutedToEmbraceJoin
    /\ poEEmbraceJoin

\* The ids of the configs listed under a team, the teams a config is listed
\* under, and the ids of the rows of a team whose plugin was loaded, all in
\* list order.
ListedIds(team) ==
    [i \in 1..Len(pluginConfigsPerTeam[team]) |-> pluginConfigsPerTeam[team][i].id]
ListedUnder(id) ==
    {t \in DOMAIN pluginConfigsPerTeam :
       \E i \in 1..Len(pluginConfigsPerTeam[t]) : pluginConfigsPerTeam[t][i].id = id}
RowOfLoadedPlugin(row) == \E i \in 1..Len(pluginRows) : pluginRows[i].id = row.plugin_id
RECURSIVE RowIdsOfTeam(_, _)
RowIdsOfTeam(team, n) ==
    IF n = 0 THEN <<>>
    ELSE LET row == pluginConfigRows[n]
         IN  IF row.team_id = Some(team) /\ RowOfLoadedPlugin(row)
             THEN Append(RowIdsOfTeam(team, n - 1), row.id)
             ELSE RowIdsOfTeam(team, n - 1)

\* C23: when loadPluginsFromDB has returned, every config listed under a team
\* is the config indexed under its own id, has that team as team_id and holds
\* a plugin of the plugins map; a row whose plugin was not loaded is in
\* neither index; a row without team_id is indexed by id only; and the list
\* of a team holds the configs of its rows in the order of the rows.
C23_ConfigIndexesConsistent ==
    loaderPc = "returned" =>
        /\ \A t \in DOMAIN pluginConfigsPerTeam :
             /\ \A i \in 1..Len(pluginConfigsPerTeam[t]) :
                  LET config == pluginConfigsPerTeam[t][i]
                  IN  /\ config.id \in DOMAIN pluginConfigs
                      /\ pluginConfigs[config.id] = config
                      /\ config.team_id = Some(t)
                      /\ config.plugin_id \in DOMAIN plugins
                      /\ config.plugin = plugins[config.plugin_id]
             /\ ListedIds(t) = RowIdsOfTeam(t, Len(pluginConfigRows))
             /\ ListedIds(t) # <<>>
        /\ \A j \in 1..Len(pluginConfigRows) :
             LET row == pluginConfigRows[j]
             IN  /\ ~RowOfLoadedPlugin(row) =>
                       (row.id \notin DOMAIN pluginConfigs /\ ListedUnder(row.id) = {})
                 /\ (RowOfLoadedPlugin(row) /\ row.team_id = Undefined) =>
                       (row.id \in DOMAIN pluginConfigs /\ ListedUnder(row.id) = {})
                 /\ (RowOfLoadedPlugin(row) /\ row.team_id # Undefined) =>
                       ListedUnder(row.id) = {row.team_id[1]}

C23_Witness ==
    /\ loaderPc = "returned"
    /\ Len(pluginRows) = 1
    /\ pluginRows[1].id = 1
    /\ pluginConfigRows =
         <<[id |-> 2, plugin_id |-> 1, team_id |-> Some(2)],
           [id |-> 1, plugin_id |-> 1, team_id |-> Some(2)]>>
    /\ DOMAIN pluginConfigsPerTeam = {2}
    /\ ListedIds(2) = <<2, 1>>
    /\ DOMAIN pluginConfigs = {1, 2}
    /\ pluginConfigs[1].plugin.skipped_for_personless = Some(TRUE)

====
